---------------------------- MODULE Spec2Model ----------------------------
(***************************************************************************)
(* A model of the ImageDisk (.IMD) decoder of go-imagedisk, read.go.       *)
(*                                                                         *)
(* Bytes are the naturals 0..255, strings and byte slices are sequences of *)
(* bytes.  A slice that may be nil is a record [present, data]: Go tells a *)
(* nil slice from an empty one.  Decode is one sequential function; it is  *)
(* cut into one step per read (or per loop body), `pc` is its position.    *)
(***************************************************************************)
EXTENDS Integers, Sequences, FiniteSets, TLC

VARIABLES
    src,                 \* the description the byte stream was built from
    stream,              \* the bytes the io.Reader holds
    failPos,             \* offset at which the reader fails with an I/O error; -1: never
    pos,                 \* number of bytes consumed from the reader
    rdErr,               \* error of the most recent r.Read call
    pc,                  \* position in Decode
    file,                \* Decode's named result `file`
    err,                 \* Decode's returned error
    str,                 \* readStringASCIIEOF's accumulator
    trackStart,          \* offset of the mode byte of the track being decoded; -1: none
    modeValue, cylinder, head, numberOfSectors, sectorSize,
    sectorNumberingMap, sectorCylinderMap, sectorHeadMap,
    sectorDataRecords,
    i, record

reader == <<src, stream, failPos>>
locals == <<modeValue, cylinder, head, numberOfSectors, sectorSize,
            sectorNumberingMap, sectorCylinderMap, sectorHeadMap,
            sectorDataRecords, i, record>>
vars == <<reader, pos, rdErr, pc, file, err, str, trackStart, locals>>

----------------------------------------------------------------------------
(* Bounds of the input space.                                              *)

MaxTracks == 2
MaxSectors == 2
MaxSize == 2
MaxComment == 2

----------------------------------------------------------------------------
(* Constants of the program.                                               *)

HeaderLen == 29
Sentinel == 26
sectorCylinderMapMask == 64
sectorHeadMapMask == 128

Nil == [present |-> FALSE, data |-> <<>>]
Some(d) == [present |-> TRUE, data |-> d]

Min(a, b) == IF a < b THEN a ELSE b

\* s[from:] and s[from:to] of Go, 0-based, on 1-based sequences
SliceFrom(s, from) == SubSeq(s, from + 1, Len(s))
Slice(s, from, to) == SubSeq(s, from + 1, to)

\* head & mask != 0, for a mask that is a single bit
HasBit(b, mask) == (b \div mask) % 2 = 1

----------------------------------------------------------------------------
(* make, fill and the copy a Read makes into its buffer.                   *)

\* make([]byte, n): n zero bytes
MakeBytes(n) == [k \in 1..n |-> 0]

\* fill(dst, v)
fill(dst, v) == [k \in 1..Len(dst) |-> v]

\* r.Read(buf) stores the delivered bytes at the front of buf; buf keeps its
\* length, and the bytes beyond the delivered ones keep their value.
ReadInto(buf, data) == [k \in 1..Len(buf) |-> IF k <= Len(data) THEN data[k] ELSE buf[k]]

\* string(b) for a byte b: the UTF-8 encoding of the code point b
RuneString(b) ==
    IF b < 128 THEN <<b>>
    ELSE <<192 + (b \div 64), 128 + (b % 64)>>

----------------------------------------------------------------------------
(* The io.Reader.  The byte source is a finite sequence.  A Read of n > 0  *)
(* bytes delivers the bytes still available, up to n, with a nil error,    *)
(* and io.EOF when none remain.  A Read of zero bytes at the end of the    *)
(* sequence is answered (0, nil) by some readers (os.File, bufio.Reader)   *)
(* and (0, io.EOF) by others (bytes.Reader, strings.Reader): both outcomes *)
(* are kept.  A reader may also fail with an I/O error at offset failPos.  *)

ReadResult(n, data, e) == [n |-> n, data |-> data, err |-> e]

ReadResults(p, n) ==
    IF p = failPos THEN {ReadResult(0, <<>>, "EIO")}
    ELSE IF p >= Len(stream)
         THEN IF n = 0 THEN {ReadResult(0, <<>>, "nil"), ReadResult(0, <<>>, "EOF")}
              ELSE {ReadResult(0, <<>>, "EOF")}
    ELSE LET avail == IF failPos > p THEN Min(Len(stream), failPos) - p
                      ELSE Len(stream) - p
             k == Min(n, avail)
         IN {ReadResult(k, SubSeq(stream, p + 1, p + k), "nil")}

\* readBytePtr / readByte: one Read into a one-byte buffer
readByte(p) ==
    {[v |-> ReadInto(<<0>>, r.data)[1], n |-> r.n, err |-> r.err] : r \in ReadResults(p, 1)}

----------------------------------------------------------------------------
(* validateHeader.                                                         *)

IsDigit(c) == c >= 48 /\ c <= 57
DigitVal(c) == c - 48
Num2(s, k) == 10 * DigitVal(s[k]) + DigitVal(s[k + 1])

\* strings.HasPrefix
HasPrefix(s, p) == Len(s) >= Len(p) /\ SubSeq(s, 1, Len(p)) = p

\* strings.Index: the 0-based offset of the first occurrence of sep, -1 if none
Index(s, sep) ==
    LET hits == {k \in 0..(Len(s) - Len(sep)) : SubSeq(s, k + 1, k + Len(sep)) = sep}
    IN IF hits = {} THEN -1 ELSE CHOOSE k \in hits : \A j \in hits : k <= j

\* strings.SplitN(s, sep, 2)
SplitN2(s, sep) ==
    LET k == Index(s, sep)
    IN IF k < 0 THEN <<s>> ELSE <<Slice(s, 0, k), SliceFrom(s, k + Len(sep))>>

\* strings.Split(s, sep) for a one-byte separator
RECURSIVE Split(_, _)
Split(s, sep) ==
    LET k == Index(s, sep)
    IN IF k < 0 THEN <<s>> ELSE <<Slice(s, 0, k)>> \o Split(SliceFrom(s, k + Len(sep)), sep)

\* strconv.Atoi returns a nil error: an optional sign, then one or more digits
AtoiOK(s) ==
    /\ Len(s) >= 1
    /\ LET body == IF s[1] = 43 \/ s[1] = 45 THEN SliceFrom(s, 1) ELSE s
       IN Len(body) >= 1 /\ \A k \in 1..Len(body) : IsDigit(body[k])

IsLeap(y) == y % 4 = 0 /\ (y % 100 # 0 \/ y % 400 = 0)

daysIn(m, y) ==
    IF m = 2 THEN (IF IsLeap(y) THEN 29 ELSE 28)
    ELSE IF m \in {4, 6, 9, 11} THEN 30 ELSE 31

\* time.Parse("02/01/2006", d) returns a nil error, for d of length 10 with '/'
\* at offsets 2 and 5: two-digit day and month, four-digit year, in range
ParseDateOK(d) ==
    /\ IsDigit(d[1]) /\ IsDigit(d[2])
    /\ IsDigit(d[4]) /\ IsDigit(d[5])
    /\ \A k \in 7..10 : IsDigit(d[k])
    /\ LET day == Num2(d, 1)
           month == Num2(d, 4)
           year == 100 * Num2(d, 7) + Num2(d, 9)
       IN /\ month >= 1 /\ month <= 12
          /\ day >= 1 /\ day <= daysIn(month, year)

\* time.Parse("15:04:05", t) returns a nil error, for t of length 8 with ':'
\* at offsets 2 and 5.  The hour may be one digit for time.Parse, but then the
\* ':' of the layout has to follow at offset 1 and the minute at offset 2,
\* where t holds ':': only two-digit hours pass.
ParseTimeOK(t) ==
    /\ IsDigit(t[1]) /\ IsDigit(t[2])
    /\ IsDigit(t[4]) /\ IsDigit(t[5])
    /\ IsDigit(t[7]) /\ IsDigit(t[8])
    /\ Num2(t, 1) < 24 /\ Num2(t, 4) < 60 /\ Num2(t, 7) < 60

ImdPrefix == <<73, 77, 68, 32>>
Separator == <<58, 32>>
Space == <<32>>

\* the version rule of validateHeader, on parts[0]
VersionErr(version) ==
    IF Len(version) < 4 \/ version[2] # 46 \/ Len(version) > 6
    THEN "invalid version format"
    ELSE IF ~AtoiOK(Slice(version, 0, 1)) THEN "invalid major version number"
    ELSE IF ~AtoiOK(SliceFrom(version, 2)) THEN "invalid minor version number"
    ELSE "nil"

\* the datetime rules of validateHeader, on parts[1]
DatetimeErr(datetime) ==
    IF Len(datetime) # 19 THEN "invalid datetime length"
    ELSE LET dateTimeParts == Split(datetime, Space)
         IN IF Len(dateTimeParts) # 2
            THEN "datetime should contain a date and time separated by space"
            ELSE LET date == dateTimeParts[1]
                     timeStr == dateTimeParts[2]
                 IN IF Len(date) # 10 \/ date[3] # 47 \/ date[6] # 47
                    THEN "invalid date format"
                    ELSE IF ~ParseDateOK(date) THEN "invalid date values"
                    ELSE IF Len(timeStr) # 8 \/ timeStr[3] # 58 \/ timeStr[6] # 58
                    THEN "invalid time format"
                    ELSE IF ~ParseTimeOK(timeStr) THEN "invalid time values"
                    ELSE "nil"

validateHeader(input) ==
    IF ~HasPrefix(input, ImdPrefix) THEN "does not start with 'IMD '"
    ELSE LET parts == SplitN2(SliceFrom(input, 4), Separator)
         IN IF Len(parts) # 2 THEN "missing ': ' separator"
            ELSE IF VersionErr(parts[1]) # "nil" THEN VersionErr(parts[1])
            ELSE DatetimeErr(parts[2])

----------------------------------------------------------------------------
(* The inputs.  A stream is described by the header text, the comment      *)
(* text, the track records that follow the sentinel, the length it is cut  *)
(* to, and the offset at which the reader fails (or -1).                   *)

\* "IMD 1.18: 15/03/2021 10:30:00"
CanonHeader ==
    <<73, 77, 68, 32, 49, 46, 49, 56, 58, 32,
      49, 53, 47, 48, 51, 47, 50, 48, 50, 49, 32,
      49, 48, 58, 51, 48, 58, 48, 48>>

Subst(s, k, c) == [s EXCEPT ![k] = c]

\* '0' '9' '+' '-' '.' ':' ' ' '/' 'x' NUL
MutChars == {48, 57, 43, 45, 46, 58, 32, 47, 120, 0}

\* '1' '+' '-' '.' 'x' ':' ' '
VersionChars == {49, 43, 45, 46, 120, 58, 32}

\* the canonical header with one byte replaced, or with another version field,
\* or with 29 February of a common and of a leap year
HeaderInputs ==
    {Subst(CanonHeader, k, c) : k \in 1..HeaderLen, c \in MutChars}
    \cup {SubSeq(CanonHeader, 1, 4) \o v \o SubSeq(CanonHeader, 9, HeaderLen) :
             v \in [1..4 -> VersionChars]}
    \cup {Subst(Subst(Subst(Subst(CanonHeader, 11, 50), 12, 57), 15, 50), 20, y) : y \in {48, 49}}

SeqsUpTo(S, n) == UNION {[1..k -> S] : k \in 0..n}

\* the bytes that follow a discriminant on the wire
SectorBytes(d, size) ==
    IF d \in {1, 3, 5, 7} THEN [k \in 1..size |-> 160 + k]
    ELSE IF d \in {2, 4, 6, 8} THEN <<238>>
    ELSE <<>>

SectorInputs(discs, size) == {[disc |-> d, bytes |-> SectorBytes(d, size)] : d \in discs}

SectorSeqs(size) ==
    {<<>>}
    \cup {<<x>> : x \in SectorInputs(0..9, size)}
    \cup UNION {[1..n -> SectorInputs({0, 1, 2, 9}, size)] : n \in 2..MaxSectors}

TrackInput(m, c, h, size, secs) ==
    [mode |-> m, cyl |-> c, head |-> h, size |-> size, secs |-> secs]

AllTracks ==
    UNION {{TrackInput(3, 7, h, size, secs) : h \in {1, 65, 128, 192}, secs \in SectorSeqs(size)} :
           size \in 0..MaxSize}

SimpleTracks ==
    {TrackInput(3, 0, 0, 0, <<>>),
     TrackInput(3, 1, 64, 2, <<[disc |-> 1, bytes |-> SectorBytes(1, 2)]>>),
     TrackInput(4, 2, 1, 1, <<[disc |-> 2, bytes |-> <<238>>], [disc |-> 0, bytes |-> <<>>]>>)}

RECURSIVE Concat(_)
Concat(ss) == IF ss = <<>> THEN <<>> ELSE Head(ss) \o Concat(Tail(ss))

NumMap(n, base) == [k \in 1..n |-> base + k]

\* the wire form of a track record
TrackWire(t) ==
    LET n == Len(t.secs)
    IN <<t.mode, t.cyl, t.head, n, t.size>>
       \o NumMap(n, 0)
       \o (IF HasBit(t.head, sectorCylinderMapMask) THEN NumMap(n, 10) ELSE <<>>)
       \o (IF HasBit(t.head, sectorHeadMapMask) THEN NumMap(n, 20) ELSE <<>>)
       \o Concat([k \in 1..n |-> <<t.secs[k].disc>> \o t.secs[k].bytes])

TracksWire(ts) == Concat([k \in 1..Len(ts) |-> TrackWire(ts[k])])

Wire(hdr, comment, ts) == hdr \o comment \o <<Sentinel>> \o TracksWire(ts)

Input(hdr, comment, ts, cut, fail) ==
    [hdr |-> hdr, comment |-> comment, tracks |-> ts, cut |-> cut, fail |-> fail]

FullLen(hdr, comment, ts) == Len(Wire(hdr, comment, ts))

\* 'A' 'B' and a byte that is not ASCII
CommentChars == {65, 66, 200}

CommentTrack == TrackInput(3, 1, 64, 2, <<[disc |-> 1, bytes |-> SectorBytes(1, 2)]>>)

----------------------------------------------------------------------------
(* Decode.                                                                 *)

EmptyFile == [Header |-> <<>>, Comment |-> <<>>, Tracks |-> <<>>]

\* Decode is entered with the reader at offset 0 and every variable zero
Start(in) ==
    /\ src = in
    /\ stream = SubSeq(Wire(in.hdr, in.comment, in.tracks), 1, in.cut)
    /\ failPos = in.fail
    /\ pos = 0
    /\ rdErr = "nil"
    /\ pc = "header"
    /\ file = EmptyFile
    /\ err = "nil"
    /\ str = <<>>
    /\ trackStart = -1
    /\ modeValue = 0 /\ cylinder = 0 /\ head = 0
    /\ numberOfSectors = 0 /\ sectorSize = 0
    /\ sectorNumberingMap = Nil /\ sectorCylinderMap = Nil /\ sectorHeadMap = Nil
    /\ sectorDataRecords = <<>>
    /\ i = 0 /\ record = 0

\* The inputs: one track of every shape, cut anywhere after the sentinel; up
\* to MaxTracks simple tracks, cut anywhere, or with a reader failing anywhere;
\* every comment of up to MaxComment bytes, alone or before a track, cut
\* anywhere after the header; every header variant before a short comment.
Init ==
    \/ \E t \in AllTracks :
          \E cut \in (HeaderLen + 1)..FullLen(CanonHeader, <<>>, <<t>>) :
             Start(Input(CanonHeader, <<>>, <<t>>, cut, -1))
    \/ \E ts \in SeqsUpTo(SimpleTracks, MaxTracks) :
          \/ \E cut \in {0, 1, HeaderLen - 1} \cup (HeaderLen..FullLen(CanonHeader, <<>>, ts)) :
                Start(Input(CanonHeader, <<>>, ts, cut, -1))
          \/ \E fail \in 0..FullLen(CanonHeader, <<>>, ts) :
                Start(Input(CanonHeader, <<>>, ts, FullLen(CanonHeader, <<>>, ts), fail))
    \/ \E c \in SeqsUpTo(CommentChars, MaxComment), ts \in {<<>>, <<CommentTrack>>} :
          \E cut \in HeaderLen..FullLen(CanonHeader, c, ts) :
             Start(Input(CanonHeader, c, ts, cut, -1))
    \/ \E h \in HeaderInputs :
          Start(Input(h, <<65>>, <<>>, HeaderLen + 2, -1))

\* return file, err
Return(f, e) ==
    /\ pc' = "done"
    /\ file' = f
    /\ err' = e

\* lines 44-51: read the header, keep it, validate it
DecodeHeader ==
    /\ pc = "header"
    /\ \E r \in ReadResults(pos, HeaderLen) :
          /\ pos' = pos + r.n
          /\ rdErr' = r.err
          /\ IF r.err # "nil" THEN Return(file, r.err)
             ELSE LET header == ReadInto(MakeBytes(HeaderLen), r.data)
                      f == [file EXCEPT !.Header = header]
                  IN IF validateHeader(header) # "nil"
                     THEN Return(f, validateHeader(header))
                     ELSE /\ pc' = "comment"
                          /\ file' = f
                          /\ err' = err
    /\ UNCHANGED <<reader, str, trackStart, locals>>

\* a plausible slip: the byte put in front of the text
PrependChar(s, b) == RuneString(b) \o s

\* str += string(byt[0])
AppendChar(s, b) == s \o RuneString(b)

\* lines 53-56 with 168-183: one turn of readStringASCIIEOF's loop; its
\* result, the text read so far, is stored in file.Comment on either return
ReadCommentByte ==
    /\ pc = "comment"
    /\ \E r \in ReadResults(pos, 1) :
          /\ pos' = pos + r.n
          /\ rdErr' = r.err
          /\ IF r.err # "nil"
             THEN Return([file EXCEPT !.Comment = str], r.err) /\ str' = str
             ELSE IF r.data[1] = Sentinel
             THEN /\ pc' = "mode"
                  /\ file' = [file EXCEPT !.Comment = str]
                  /\ err' = "nil"
                  /\ str' = str
             ELSE /\ str' = AppendChar(str, r.data[1])
                  /\ UNCHANGED <<pc, file, err>>
    /\ UNCHANGED <<reader, trackStart, locals>>

\* lines 59-62: the mode byte; any error of this read leaves the loop
ReadModeValue ==
    /\ pc = "mode"
    /\ \E r \in readByte(pos) :
          /\ pos' = pos + r.n
          /\ rdErr' = r.err
          /\ IF r.err # "nil"
             THEN Return(file, "nil") /\ UNCHANGED <<modeValue, trackStart>>
             ELSE /\ modeValue' = r.v
                  /\ trackStart' = pos
                  /\ pc' = "cylinder"
                  /\ UNCHANGED <<file, err>>
    /\ UNCHANGED <<reader, str, cylinder, head, numberOfSectors, sectorSize,
                   sectorNumberingMap, sectorCylinderMap, sectorHeadMap,
                   sectorDataRecords, i, record>>

\* lines 63-66
ReadCylinder ==
    /\ pc = "cylinder"
    /\ \E r \in readByte(pos) :
          /\ pos' = pos + r.n
          /\ rdErr' = r.err
          /\ IF r.err # "nil"
             THEN Return(file, r.err) /\ UNCHANGED cylinder
             ELSE /\ cylinder' = r.v
                  /\ pc' = "head"
                  /\ UNCHANGED <<file, err>>
    /\ UNCHANGED <<reader, str, trackStart, modeValue, head, numberOfSectors, sectorSize,
                   sectorNumberingMap, sectorCylinderMap, sectorHeadMap,
                   sectorDataRecords, i, record>>

\* lines 67-70
ReadHead ==
    /\ pc = "head"
    /\ \E r \in readByte(pos) :
          /\ pos' = pos + r.n
          /\ rdErr' = r.err
          /\ IF r.err # "nil"
             THEN Return(file, r.err) /\ UNCHANGED head
             ELSE /\ head' = r.v
                  /\ pc' = "numberOfSectors"
                  /\ UNCHANGED <<file, err>>
    /\ UNCHANGED <<reader, str, trackStart, modeValue, cylinder, numberOfSectors, sectorSize,
                   sectorNumberingMap, sectorCylinderMap, sectorHeadMap,
                   sectorDataRecords, i, record>>

\* lines 71-74
ReadNumberOfSectors ==
    /\ pc = "numberOfSectors"
    /\ \E r \in readByte(pos) :
          /\ pos' = pos + r.n
          /\ rdErr' = r.err
          /\ IF r.err # "nil"
             THEN Return(file, r.err) /\ UNCHANGED numberOfSectors
             ELSE /\ numberOfSectors' = r.v
                  /\ pc' = "sectorSize"
                  /\ UNCHANGED <<file, err>>
    /\ UNCHANGED <<reader, str, trackStart, modeValue, cylinder, head, sectorSize,
                   sectorNumberingMap, sectorCylinderMap, sectorHeadMap,
                   sectorDataRecords, i, record>>

\* lines 75-78
ReadSectorSize ==
    /\ pc = "sectorSize"
    /\ \E r \in readByte(pos) :
          /\ pos' = pos + r.n
          /\ rdErr' = r.err
          /\ IF r.err # "nil"
             THEN Return(file, r.err) /\ UNCHANGED sectorSize
             ELSE /\ sectorSize' = r.v
                  /\ pc' = "numberingMap"
                  /\ UNCHANGED <<file, err>>
    /\ UNCHANGED <<reader, str, trackStart, modeValue, cylinder, head, numberOfSectors,
                   sectorNumberingMap, sectorCylinderMap, sectorHeadMap,
                   sectorDataRecords, i, record>>

\* lines 80-85: the numbering map, one Read of numberOfSectors bytes; the two
\* optional maps start nil
ReadSectorNumberingMap ==
    /\ pc = "numberingMap"
    /\ \E r \in ReadResults(pos, numberOfSectors) :
          /\ pos' = pos + r.n
          /\ rdErr' = r.err
          /\ sectorNumberingMap' = Some(ReadInto(MakeBytes(numberOfSectors), r.data))
          /\ sectorCylinderMap' = Nil
          /\ sectorHeadMap' = Nil
          /\ IF r.err # "nil"
             THEN Return(file, r.err)
             ELSE pc' = "cylinderMap" /\ UNCHANGED <<file, err>>
    /\ UNCHANGED <<reader, str, trackStart, modeValue, cylinder, head, numberOfSectors,
                   sectorSize, sectorDataRecords, i, record>>

\* lines 87-92: the cylinder map, read when bit 6 of the head byte is set
ReadSectorCylinderMap ==
    /\ pc = "cylinderMap"
    /\ IF HasBit(head, sectorCylinderMapMask)
       THEN \E r \in ReadResults(pos, numberOfSectors) :
               /\ pos' = pos + r.n
               /\ rdErr' = r.err
               /\ sectorCylinderMap' = Some(ReadInto(MakeBytes(numberOfSectors), r.data))
               /\ IF r.err # "nil"
                  THEN Return(file, r.err)
                  ELSE pc' = "headMap" /\ UNCHANGED <<file, err>>
       ELSE /\ pc' = "headMap"
            /\ UNCHANGED <<pos, rdErr, sectorCylinderMap, file, err>>
    /\ UNCHANGED <<reader, str, trackStart, modeValue, cylinder, head, numberOfSectors,
                   sectorSize, sectorNumberingMap, sectorHeadMap, sectorDataRecords,
                   i, record>>

\* lines 94-104: the head map, read when bit 7 of the head byte is set; then
\* the data records are made, all nil, and the sector loop starts at 0
ReadSectorHeadMap ==
    /\ pc = "headMap"
    /\ sectorDataRecords' = [k \in 1..numberOfSectors |-> Nil]
    /\ i' = 0
    /\ record' = 0
    /\ IF HasBit(head, sectorHeadMapMask)
       THEN \E r \in ReadResults(pos, numberOfSectors) :
               /\ pos' = pos + r.n
               /\ rdErr' = r.err
               /\ sectorHeadMap' = Some(ReadInto(MakeBytes(numberOfSectors), r.data))
               /\ IF r.err # "nil"
                  THEN Return(file, r.err)
                  ELSE pc' = "sector" /\ UNCHANGED <<file, err>>
       ELSE /\ pc' = "sector"
            /\ UNCHANGED <<pos, rdErr, sectorHeadMap, file, err>>
    /\ UNCHANGED <<reader, str, trackStart, modeValue, cylinder, head, numberOfSectors,
                   sectorSize, sectorNumberingMap, sectorCylinderMap>>

\* a plausible slip: the loop one turn short
SectorLoopCondShort(k, n) == k + 1 < n

\* line 104: the condition of the sector loop
SectorLoopCond(k, n) == k < n

\* the switch of line 109
IsVerbatim(d) == d \in {1, 3, 5, 7}
IsCompressed(d) == d \in {2, 4, 6, 8}

\* a plausible slip: the buffer sized by the sector count
PayloadBufferBySectors(size, n) == MakeBytes(n)

\* sectorDataRecords[i] = make([]byte, sectorSize), lines 113 and 122
PayloadBuffer(size, n) == MakeBytes(size)

\* sectorDataRecords[i] = ... (i is 0-based)
SetRecord(recs, k, v) == [recs EXCEPT ![k + 1] = v]

\* lines 104-125: one turn of the sector loop
ReadSector ==
    /\ pc = "sector"
    /\ SectorLoopCond(i, numberOfSectors)
    /\ \E d \in readByte(pos) :
          /\ record' = d.v
          /\ IF d.err # "nil"
             THEN /\ pos' = pos + d.n
                  /\ rdErr' = d.err
                  /\ Return(file, d.err)
                  /\ UNCHANGED <<sectorDataRecords, i>>
             ELSE IF IsVerbatim(d.v)
             THEN \E r \in ReadResults(pos + d.n, sectorSize) :
                     /\ pos' = pos + d.n + r.n
                     /\ rdErr' = r.err
                     /\ sectorDataRecords' =
                            SetRecord(sectorDataRecords, i, Some(ReadInto(PayloadBuffer(sectorSize, numberOfSectors), r.data)))
                     /\ IF r.err # "nil"
                        THEN Return(file, r.err) /\ UNCHANGED i
                        ELSE i' = (i + 1) % 256 /\ UNCHANGED <<pc, file, err>>
             ELSE IF IsCompressed(d.v)
             THEN \E v \in readByte(pos + d.n) :
                     /\ pos' = pos + d.n + v.n
                     /\ rdErr' = v.err
                     /\ IF v.err # "nil"
                        THEN Return(file, v.err) /\ UNCHANGED <<sectorDataRecords, i>>
                        ELSE /\ sectorDataRecords' =
                                    SetRecord(sectorDataRecords, i, Some(fill(PayloadBuffer(sectorSize, numberOfSectors), v.v)))
                             /\ i' = (i + 1) % 256
                             /\ UNCHANGED <<pc, file, err>>
             ELSE /\ pos' = pos + d.n
                  /\ rdErr' = d.err
                  /\ i' = (i + 1) % 256
                  /\ UNCHANGED <<sectorDataRecords, pc, file, err>>
    /\ UNCHANGED <<reader, str, trackStart, modeValue, cylinder, head, numberOfSectors,
                   sectorSize, sectorNumberingMap, sectorCylinderMap, sectorHeadMap>>

\* the Track literal of lines 127-137
NewTrack ==
    [ModeValue |-> modeValue,
     Cylinder |-> cylinder,
     Head |-> head,
     NumberOfSectors |-> numberOfSectors,
     SectorSize |-> sectorSize,
     SectorNumberingMap |-> sectorNumberingMap,
     SectorCylinderMap |-> sectorCylinderMap,
     SectorHeadMap |-> sectorHeadMap,
     SectorDataRecords |-> sectorDataRecords]

\* file.Tracks = append(file.Tracks, t)
AppendTracks(tracks, t) == Append(tracks, t)

\* line 138: what follows the append, the `break` that leaves the track loop
AfterAppend == "done"

\* lines 127-141: the sector loop is over; append the track, leave the track
\* loop, return file, nil
AppendTrack ==
    /\ pc = "sector"
    /\ ~SectorLoopCond(i, numberOfSectors)
    /\ file' = [file EXCEPT !.Tracks = AppendTracks(@, NewTrack)]
    /\ pc' = AfterAppend
    /\ err' = "nil"
    /\ trackStart' = IF AfterAppend = "done" THEN trackStart ELSE -1
    /\ UNCHANGED <<reader, pos, rdErr, str, locals>>

Next ==
    \/ DecodeHeader
    \/ ReadCommentByte
    \/ ReadModeValue
    \/ ReadCylinder
    \/ ReadHead
    \/ ReadNumberOfSectors
    \/ ReadSectorSize
    \/ ReadSectorNumberingMap
    \/ ReadSectorCylinderMap
    \/ ReadSectorHeadMap
    \/ ReadSector
    \/ AppendTrack

Spec == Init /\ [][Next]_vars

----------------------------------------------------------------------------
(* What the format says of an input: offsets of its parts and the decoded  *)
(* form of a track record.                                                 *)

Done == pc = "done"

IsASCII(text) == \A k \in 1..Len(text) : text[k] < 128

\* offset of the byte after the sentinel
CommentEnd(in) == HeaderLen + Len(in.comment) + 1

\* offsets of the first byte of track k (1-based) and of the byte after it
TrackOffset(in, k) == CommentEnd(in) + Len(TracksWire(SubSeq(in.tracks, 1, k - 1)))
TrackEnd(in, k) == TrackOffset(in, k) + Len(TrackWire(in.tracks[k]))

ValidTrack(t) == \A k \in 1..Len(t.secs) : t.secs[k].disc \in 0..8
ValidTracks(in) == \A k \in 1..Len(in.tracks) : ValidTrack(in.tracks[k])

\* a canonical header and a reader that never fails
GoodStart(in) == in.hdr = CanonHeader /\ in.fail = -1

\* the stream is the whole of header, comment, sentinel and valid tracks
WholeInput(in) ==
    /\ GoodStart(in)
    /\ ValidTracks(in)
    /\ in.cut = FullLen(in.hdr, in.comment, in.tracks)

ExpectedPayload(sec, size) ==
    IF sec.disc = 0 THEN Nil
    ELSE IF sec.disc \in {1, 3, 5, 7} THEN Some(sec.bytes)
    ELSE Some([k \in 1..size |-> sec.bytes[1]])

ExpectedRecords(t) == [k \in 1..Len(t.secs) |-> ExpectedPayload(t.secs[k], t.size)]

ExpectedTrack(t) ==
    LET n == Len(t.secs)
    IN [ModeValue |-> t.mode,
        Cylinder |-> t.cyl,
        Head |-> t.head,
        NumberOfSectors |-> n,
        SectorSize |-> t.size,
        SectorNumberingMap |-> Some(NumMap(n, 0)),
        SectorCylinderMap |->
            IF HasBit(t.head, sectorCylinderMapMask) THEN Some(NumMap(n, 10)) ELSE Nil,
        SectorHeadMap |->
            IF HasBit(t.head, sectorHeadMapMask) THEN Some(NumMap(n, 20)) ELSE Nil,
        SectorDataRecords |-> ExpectedRecords(t)]

ExpectedTracks(in) == [k \in 1..Len(in.tracks) |-> ExpectedTrack(in.tracks[k])]

\* the track of the input whose mode byte sits at offset off, 0 if none
TrackIndexAt(in, off) ==
    LET ks == {k \in 1..Len(in.tracks) : TrackOffset(in, k) = off}
    IN IF ks = {} THEN 0 ELSE CHOOSE k \in ks : TRUE

InTrackBody ==
    pc \in {"cylinder", "head", "numberOfSectors", "sectorSize",
            "numberingMap", "cylinderMap", "headMap", "sector"}

----------------------------------------------------------------------------
(* The claims.                                                             *)

\* C1: a stream of a valid header, a sentinel-terminated comment and K valid
\* track records decodes to a File whose Tracks are exactly those K records,
\* in stream order.  It is stated for the decodes that return a nil error:
\* the claim says at least this much.
C1_MultiTrackDecode ==
    (Done /\ err = "nil" /\ WholeInput(src)) => file.Tracks = ExpectedTracks(src)

\* C2: once a sector slot's discriminant byte is outside 0..8, Decode has
\* returned a non-nil error and the track of that sector is not in
\* file.Tracks.
C2_UnrecognizedDiscriminantAborts ==
    (record > 8) => (Done /\ err # "nil" /\ file.Tracks = <<>>)

\* C3: when the stream ends after the mode byte of a track was read and before
\* the end of that track's record, Decode returns a non-nil error and does not
\* append the track.
C3_ShortReadInTrackIsFatal ==
    \A k \in 1..Len(src.tracks) :
        (/\ Done
         /\ GoodStart(src)
         /\ ValidTracks(src)
         /\ trackStart = TrackOffset(src, k)
         /\ src.cut < TrackEnd(src, k))
        => (err # "nil" /\ Len(file.Tracks) = k - 1)

\* C4: when a read of Decode failed with an I/O failure that is not
\* end-of-stream, Decode returns a non-nil error.
C4_IOFailureIsAnError ==
    (Done /\ rdErr = "EIO") => err # "nil"

\* C5: when the stream ends exactly where the next mode byte would be read,
\* after the sentinel or after a complete track record, Decode returns a nil
\* error with the header, the comment and the tracks decoded so far.
C5_CleanEndOfInput ==
    (Done /\ WholeInput(src) /\ IsASCII(src.comment))
    => /\ err = "nil"
       /\ file.Header = src.hdr
       /\ file.Comment = src.comment
       /\ Len(file.Tracks) <= Len(src.tracks)
       /\ \A k \in 1..Len(file.Tracks) : file.Tracks[k] = ExpectedTrack(src.tracks[k])

ShapeOK(t) ==
    /\ t.SectorNumberingMap.present
    /\ Len(t.SectorNumberingMap.data) = t.NumberOfSectors
    /\ t.SectorCylinderMap.present => Len(t.SectorCylinderMap.data) = t.NumberOfSectors
    /\ t.SectorHeadMap.present => Len(t.SectorHeadMap.data) = t.NumberOfSectors
    /\ Len(t.SectorDataRecords) = t.NumberOfSectors
    /\ \A k \in 1..Len(t.SectorDataRecords) :
          t.SectorDataRecords[k].present => Len(t.SectorDataRecords[k].data) = t.SectorSize

\* C6: in every Track of file.Tracks, with N = NumberOfSectors, the numbering
\* map has length N, the cylinder and head maps have length N when present,
\* SectorDataRecords has length N and every present buffer has length
\* SectorSize.
C6_TrackShape ==
    \A k \in 1..Len(file.Tracks) : ShapeOK(file.Tracks[k])

\* a returned track with two maps, a present and an absent payload, whose
\* sector count and sector size differ; and a returned track whose last
\* payload was cut short by the end of the stream
C6_Witness ==
    /\ Done
    /\ \E k \in 1..Len(file.Tracks) :
          LET t == file.Tracks[k]
          IN /\ t.NumberOfSectors = MaxSectors
             /\ t.SectorSize # t.NumberOfSectors
             /\ t.SectorCylinderMap.present /\ t.SectorHeadMap.present
             /\ \E a, b \in 1..t.NumberOfSectors :
                   t.SectorDataRecords[a].present /\ ~t.SectorDataRecords[b].present

\* C7: a completely present sector record of declared size K decodes by the
\* discriminant table: 0 gives an absent payload, 1, 3, 5, 7 the K literal
\* bytes, 2, 4, 6, 8 K copies of the fill byte; the next slot starts at the
\* byte after the record.  So a whole first track with sectors decodes to the
\* expected records and leaves the reader at the end of the track.
C7_SectorPayloads ==
    (/\ Done
     /\ GoodStart(src)
     /\ Len(src.tracks) >= 1
     /\ ValidTrack(src.tracks[1])
     /\ Len(src.tracks[1].secs) >= 1
     /\ src.cut >= TrackEnd(src, 1))
    => /\ Len(file.Tracks) >= 1
       /\ file.Tracks[1].SectorDataRecords = ExpectedRecords(src.tracks[1])
       /\ pos = TrackEnd(src, 1)

\* C8: an ASCII comment T without the sentinel, followed by the sentinel,
\* decodes to Comment = T; the sentinel is consumed and track decoding starts
\* at the byte after it.  A stream that ends before the sentinel gives a
\* non-nil error.
C8_CommentRoundTrip ==
    (GoodStart(src) /\ IsASCII(src.comment) /\ src.cut >= HeaderLen)
    => /\ (src.cut >= CommentEnd(src) /\ pc \notin {"header", "comment"})
              => file.Comment = src.comment
       /\ (pc = "mode") => pos = CommentEnd(src)
       /\ (src.cut < CommentEnd(src) /\ Done) => err # "nil"

C8_Witness ==
    /\ pc = "mode"
    /\ GoodStart(src)
    /\ Len(src.comment) = MaxComment
    /\ IsASCII(src.comment)
    /\ src.comment[1] # src.comment[2]
    /\ file.Comment = src.comment

\* the text between "IMD " and the first ": "
VersionPart(h) ==
    LET rest == SliceFrom(h, 4)
        k == Index(rest, Separator)
    IN IF k < 0 THEN rest ELSE Slice(rest, 0, k)

\* a decimal digit, a '.', one or two decimal digits
VersionShape(v) ==
    /\ Len(v) \in {3, 4}
    /\ IsDigit(v[1])
    /\ v[2] = 46
    /\ \A k \in 3..Len(v) : IsDigit(v[k])

\* C9: a header that validation accepts has a version part made of a decimal
\* digit, a '.', and one or two decimal digits, without a sign.
C9_HeaderVersionRule ==
    (pc = "comment") => VersionShape(VersionPart(file.Header))

\* C10: file.Tracks only grows, and only by the one track whose N sector slots
\* have all been processed; the tracks it holds never change; an error raised
\* inside track j returns the file as it was, with the j tracks completed
\* before.
C10_Step ==
    /\ Len(file'.Tracks) >= Len(file.Tracks)
    /\ SubSeq(file'.Tracks, 1, Len(file.Tracks)) = file.Tracks
    /\ (file'.Tracks # file.Tracks)
          => /\ pc = "sector"
             /\ i = numberOfSectors
             /\ Len(sectorDataRecords) = numberOfSectors
             /\ file'.Tracks = Append(file.Tracks, NewTrack)
    /\ (InTrackBody /\ pc' = "done" /\ err' # "nil")
          => /\ file' = file
             /\ file'.Header = SubSeq(stream, 1, HeaderLen)
             /\ TrackIndexAt(src, trackStart) # 0
                   => Len(file'.Tracks) = TrackIndexAt(src, trackStart) - 1

C10_PartialResult == [][C10_Step]_vars

\* an error returned from inside a track, after one of its sectors was decoded
C10_Witness ==
    /\ Done
    /\ err # "nil"
    /\ trackStart >= 0
    /\ i >= 1
    /\ file.Tracks = <<>>
    /\ file.Header = CanonHeader

=============================================================================
